---- MODULE Spec2Model ----
(***************************************************************************)
(* Model of txflow (src/src/main.rs): a single-pass ledger engine that     *)
(* replays a stream of deposit / withdrawal / dispute / resolve /          *)
(* chargeback records against per-client accounts and then writes one row  *)
(* per account.                                                            *)
(*                                                                         *)
(* Decimal amounts are modelled as integers (a number of smallest units);  *)
(* Decimal is signed and the code never checks the sign of an amount, so   *)
(* the amounts read from the input include a negative value.               *)
(* Option<Decimal> is a sequence: << >> is None, <<a>> is Some(a).         *)
(***************************************************************************)
EXTENDS Integers, Sequences, FiniteSets, TLC

\* largest amount carried by a record, and number of records in the input
MaxAmount == 1
MaxEvents == 4

\* ClientId and TxId are opaque u32 keys that the code only hashes and compares
\* for equality; the inputs name two clients and two transaction ids
Clients  == {1, 2}
TxIds    == {1, 2}
Amounts  == {-1} \cup (1..MaxAmount)
NonNegAmounts == 1..MaxAmount
OptAmounts == {<< >>} \cup {<<a>> : a \in Amounts}
NonNegOptAmounts == {<< >>} \cup {<<a>> : a \in NonNegAmounts}

TxType == {"deposit", "withdrawal", "dispute", "resolve", "chargeback"}

VARIABLES
  pc,         \* position of main / process_transactions
  accounts,   \* HashMap<ClientId, Account>: a function on the known clients
  record,     \* the Transaction most recently deserialized by the loop
  nread,      \* number of records consumed from the reader
  nonDeposit, \* the clients addressed so far by a record that is not a deposit
  deposited,  \* per client, the sum of the amounts of the deposit records consumed
  net,        \* per client, applied deposits less applied withdrawals and chargebacks
  stdout,     \* rows written to standard output, in the order serialized
  stderr,     \* diagnostics printed with eprintln!
  exitCode    \* process exit status, -1 while the process is running

vars == <<pc, accounts, record, nread, nonDeposit, deposited, net, stdout, stderr, exitCode>>

NoRecord == [type |-> "none", client |-> 0, tx |-> 0, amount |-> << >>]

Transaction(ty, c, t, a) == [type |-> ty, client |-> c, tx |-> t, amount |-> a]

\* Account { client, ..Default::default() }
NewAccount(c) ==
  [client |-> c, available |-> 0, held |-> 0, locked |-> FALSE, history |-> << >>]

\* HashMap::insert: adds the key or overwrites the value already stored under it
Insert(h, k, v) == [x \in (DOMAIN h) \cup {k} |-> IF x = k THEN v ELSE h[x]]

\* deposit without the locked guard
deposit_NoLockCheck(self, tx, amount) ==
  [self EXCEPT !.available = @ + amount,
               !.history = Insert(@, tx, [amount |-> amount, disputed |-> FALSE])]

\* deposit that assigns the amount instead of adding it
deposit_SetsAvailable(self, tx, amount) ==
  IF self.locked THEN self
  ELSE [self EXCEPT !.available = amount,
                    !.history = Insert(@, tx, [amount |-> amount, disputed |-> FALSE])]

deposit(self, tx, amount) ==
  IF self.locked THEN self
  ELSE [self EXCEPT !.available = @ + amount,
                    !.history = Insert(@, tx, [amount |-> amount, disputed |-> FALSE])]

\* withdrawal without the insufficient-funds guard
withdrawal_NoFundsCheck(self, amount) ==
  IF self.locked THEN self
  ELSE [self EXCEPT !.available = @ - amount]

withdrawal(self, amount) ==
  IF self.locked \/ self.available < amount THEN self
  ELSE [self EXCEPT !.available = @ - amount]

\* dispute without the available >= amount guard (the laxer policy)
dispute_NoFundsCheck(self, tx) ==
  IF self.locked THEN self
  ELSE IF tx \in DOMAIN self.history
       THEN LET amount == self.history[tx].amount
                disputed == self.history[tx].disputed
            IN IF ~disputed
               THEN [self EXCEPT !.available = @ - amount,
                                 !.held = @ + amount,
                                 !.history[tx].disputed = TRUE]
               ELSE self
       ELSE self

dispute(self, tx) ==
  IF self.locked THEN self
  ELSE IF tx \in DOMAIN self.history
       THEN LET amount == self.history[tx].amount
                disputed == self.history[tx].disputed
            IN IF ~disputed /\ self.available >= amount
               THEN [self EXCEPT !.available = @ - amount,
                                 !.held = @ + amount,
                                 !.history[tx].disputed = TRUE]
               ELSE self
       ELSE self

\* resolve that does not look at the disputed flag
resolve_NoDisputedCheck(self, tx) ==
  IF self.locked THEN self
  ELSE IF tx \in DOMAIN self.history
       THEN LET amount == self.history[tx].amount
            IN [self EXCEPT !.available = @ + amount,
                            !.held = @ - amount,
                            !.history[tx].disputed = FALSE]
       ELSE self

resolve(self, tx) ==
  IF self.locked THEN self
  ELSE IF tx \in DOMAIN self.history
       THEN LET amount == self.history[tx].amount
                disputed == self.history[tx].disputed
            IN IF disputed
               THEN [self EXCEPT !.available = @ + amount,
                                 !.held = @ - amount,
                                 !.history[tx].disputed = FALSE]
               ELSE self
       ELSE self

\* chargeback that locks the account outside the disputed check
chargeback_LocksAlways(self, tx) ==
  IF self.locked THEN self
  ELSE IF tx \in DOMAIN self.history /\ self.history[tx].disputed
       THEN [self EXCEPT !.held = @ - self.history[tx].amount,
                         !.locked = TRUE,
                         !.history[tx].disputed = FALSE]
       ELSE [self EXCEPT !.locked = TRUE]

\* chargeback that takes the amount out of available as well as out of held
chargeback_AlsoDebitsAvailable(self, tx) ==
  IF self.locked THEN self
  ELSE IF tx \in DOMAIN self.history /\ self.history[tx].disputed
       THEN [self EXCEPT !.available = @ - self.history[tx].amount,
                         !.held = @ - self.history[tx].amount,
                         !.locked = TRUE,
                         !.history[tx].disputed = FALSE]
       ELSE self

chargeback(self, tx) ==
  IF self.locked THEN self
  ELSE IF tx \in DOMAIN self.history
       THEN LET amount == self.history[tx].amount
                disputed == self.history[tx].disputed
            IN IF disputed
               THEN [self EXCEPT !.held = @ - amount,
                                 !.locked = TRUE,
                                 !.history[tx].disputed = FALSE]
               ELSE self
       ELSE self

\* accounts.entry(client).or_insert(Account { client, ..Default::default() })
OrInsert(accs, c) ==
  IF c \in DOMAIN accs THEN accs
  ELSE [x \in (DOMAIN accs) \cup {c} |-> IF x = c THEN NewAccount(c) ELSE accs[x]]

\* match that treats an absent amount as an amount of zero
Dispatch_AbsentIsZero(account, rec) ==
  CASE rec.type = "deposit" ->
         deposit(account, rec.tx, IF rec.amount # << >> THEN rec.amount[1] ELSE 0)
    [] rec.type = "withdrawal" ->
         withdrawal(account, IF rec.amount # << >> THEN rec.amount[1] ELSE 0)
    [] rec.type = "dispute" -> dispute(account, rec.tx)
    [] rec.type = "resolve" -> resolve(account, rec.tx)
    [] rec.type = "chargeback" -> chargeback(account, rec.tx)

\* match that also records a withdrawal in the history, as it does a deposit
Dispatch_WithdrawalRecorded(account, rec) ==
  CASE rec.type = "deposit" ->
         IF rec.amount # << >> THEN deposit(account, rec.tx, rec.amount[1]) ELSE account
    [] rec.type = "withdrawal" ->
         IF rec.amount # << >>
         THEN LET after == withdrawal(account, rec.amount[1])
              IN IF after = account THEN account
                 ELSE [after EXCEPT !.history =
                         Insert(@, rec.tx, [amount |-> rec.amount[1], disputed |-> FALSE])]
         ELSE account
    [] rec.type = "dispute" -> dispute(account, rec.tx)
    [] rec.type = "resolve" -> resolve(account, rec.tx)
    [] rec.type = "chargeback" -> chargeback(account, rec.tx)

\* the match on record.tx_type, applied to the addressed account
Dispatch(account, rec) ==
  CASE rec.type = "deposit" ->
         IF rec.amount # << >> THEN deposit(account, rec.tx, rec.amount[1]) ELSE account
    [] rec.type = "withdrawal" ->
         IF rec.amount # << >> THEN withdrawal(account, rec.amount[1]) ELSE account
    [] rec.type = "dispute" -> dispute(account, rec.tx)
    [] rec.type = "resolve" -> resolve(account, rec.tx)
    [] rec.type = "chargeback" -> chargeback(account, rec.tx)

\* loop body that looks a disputed tx up in every account's history (one
\* global transaction table) when the addressed account does not hold it
Apply_GlobalHistory(accs, rec) ==
  LET withEntry == OrInsert(accs, rec.client)
      owners == {b \in DOMAIN withEntry : rec.tx \in DOMAIN withEntry[b].history}
      target == IF /\ rec.type \in {"dispute", "resolve", "chargeback"}
                   /\ owners # {}
                   /\ rec.client \notin owners
                THEN CHOOSE b \in owners : TRUE
                ELSE rec.client
  IN [withEntry EXCEPT ![target] = Dispatch(@, rec)]

\* loop body that creates an account only for a deposit and drops any other
\* record naming an unknown client
Apply_CreatesOnDepositOnly(accs, rec) ==
  IF rec.client \notin DOMAIN accs /\ rec.type # "deposit"
  THEN accs
  ELSE LET withEntry == OrInsert(accs, rec.client)
       IN [withEntry EXCEPT ![rec.client] = Dispatch(@, rec)]

\* loop body with one engine-wide lock: an effective chargeback locks every
\* account
Apply_ChargebackLocksAll(accs, rec) ==
  LET withEntry == OrInsert(accs, rec.client)
      applied == [withEntry EXCEPT ![rec.client] = Dispatch(@, rec)]
  IN IF rec.type = "chargeback" /\ applied[rec.client].locked
     THEN [b \in DOMAIN applied |-> [applied[b] EXCEPT !.locked = TRUE]]
     ELSE applied

\* one iteration of the loop body for a record that deserialized
Apply(accs, rec) ==
  LET withEntry == OrInsert(accs, rec.client)
  IN [withEntry EXCEPT ![rec.client] = Dispatch(@, rec)]

\* what serde writes for an Account: history is #[serde(skip)]
Row(account) ==
  [client |-> account.client, available |-> account.available,
   held |-> account.held, locked |-> account.locked]

Init ==
  /\ pc = "start"
  /\ accounts = << >>
  /\ record = NoRecord
  /\ nread = 0
  /\ nonDeposit = {}
  /\ deposited = [c \in Clients |-> 0]
  /\ net = [c \in Clients |-> 0]
  /\ stdout = << >>
  /\ stderr = << >>
  /\ exitCode = -1

\* main: env::args().nth(1) is None
MainNoArg ==
  /\ pc = "start"
  /\ stderr' = Append(stderr, "usage")
  /\ pc' = "done"
  /\ exitCode' = 0
  /\ UNCHANGED <<accounts, record, nread, nonDeposit, deposited, net, stdout>>

\* main: File::open(path)? fails, the error is printed and main returns
MainOpenFail ==
  /\ pc = "start"
  /\ stderr' = Append(stderr, "error")
  /\ pc' = "done"
  /\ exitCode' = 0
  /\ UNCHANGED <<accounts, record, nread, nonDeposit, deposited, net, stdout>>

\* main: the file opens, the reader and the empty map are built
MainOpen ==
  /\ pc = "start"
  /\ pc' = "reading"
  /\ UNCHANGED <<accounts, record, nread, nonDeposit, deposited, net, stdout, stderr, exitCode>>

\* the funds a record moves into (+) or out of (-) the account it is applied
\* to: a deposit that passes the locked guard, a withdrawal that passes the
\* locked and funds guards, a chargeback of a recorded, disputed tx
NetChange(account, rec) ==
  IF account.locked THEN 0
  ELSE CASE rec.type = "deposit" /\ rec.amount # << >> -> rec.amount[1]
         [] rec.type = "withdrawal" /\ rec.amount # << >> ->
              IF account.available >= rec.amount[1] THEN 0 - rec.amount[1] ELSE 0
         [] rec.type = "chargeback" /\ rec.tx \in DOMAIN account.history ->
              IF account.history[rec.tx].disputed
              THEN 0 - account.history[rec.tx].amount ELSE 0
         [] OTHER -> 0

\* one iteration of the loop on a row that deserializes to rec
ReadRecord(rec) ==
  /\ pc = "reading"
  /\ nread < MaxEvents
  /\ record' = rec
  /\ nread' = nread + 1
  /\ accounts' = Apply(accounts, rec)
  /\ nonDeposit' = IF rec.type = "deposit" THEN nonDeposit
                   ELSE nonDeposit \cup {rec.client}
  /\ deposited' = IF rec.type = "deposit" /\ rec.amount # << >>
                  THEN [deposited EXCEPT ![rec.client] = @ + rec.amount[1]]
                  ELSE deposited
  /\ net' = [net EXCEPT ![rec.client] =
               @ + NetChange(OrInsert(accounts, rec.client)[rec.client], rec)]
  /\ UNCHANGED <<pc, stdout, stderr, exitCode>>

ReadDeposit(c, t, a) ==
  /\ pc = "reading"
  /\ ReadRecord(Transaction("deposit", c, t, a))

ReadWithdrawal(c, t, a) ==
  /\ pc = "reading"
  /\ ReadRecord(Transaction("withdrawal", c, t, a))

ReadDispute(c, t) ==
  /\ pc = "reading"
  /\ ReadRecord(Transaction("dispute", c, t, << >>))

ReadResolve(c, t) ==
  /\ pc = "reading"
  /\ ReadRecord(Transaction("resolve", c, t, << >>))

ReadChargeback(c, t) ==
  /\ pc = "reading"
  /\ ReadRecord(Transaction("chargeback", c, t, << >>))

\* the orders in which HashMap::values() may visit the keys in S
Orders(S) ==
  {f \in [1..Cardinality(S) -> S] : \A i, j \in 1..Cardinality(S) : f[i] = f[j] => i = j}

\* error path that still serializes the accounts built so far before returning
ReadMalformed_WritesApplied ==
  /\ pc = "reading"
  /\ stderr' = Append(stderr, "error")
  /\ \E order \in Orders(DOMAIN accounts) :
       stdout' = [i \in 1..Cardinality(DOMAIN accounts) |-> Row(accounts[order[i]])]
  /\ pc' = "done"
  /\ exitCode' = 0
  /\ UNCHANGED <<accounts, record, nread, nonDeposit, deposited, net>>

\* a row fails to deserialize: result? returns the error to main, which prints it
ReadMalformed ==
  /\ pc = "reading"
  /\ stderr' = Append(stderr, "error")
  /\ pc' = "done"
  /\ exitCode' = 0
  /\ UNCHANGED <<accounts, record, nread, nonDeposit, deposited, net, stdout>>

\* the reader is exhausted: the loop ends, every account is serialized once in
\* map order into the writer, the writer is flushed and main returns
EndOfInput ==
  /\ pc = "reading"
  /\ \E order \in Orders(DOMAIN accounts) :
       stdout' = [i \in 1..Cardinality(DOMAIN accounts) |-> Row(accounts[order[i]])]
  /\ pc' = "done"
  /\ exitCode' = 0
  /\ UNCHANGED <<accounts, record, nread, nonDeposit, deposited, net, stderr>>

Next ==
  \/ MainNoArg
  \/ MainOpenFail
  \/ MainOpen
  \/ \E c \in Clients, t \in TxIds, a \in OptAmounts : ReadDeposit(c, t, a)
  \/ \E c \in Clients, t \in TxIds, a \in OptAmounts : ReadWithdrawal(c, t, a)
  \/ \E c \in Clients, t \in TxIds : ReadDispute(c, t)
  \/ \E c \in Clients, t \in TxIds : ReadResolve(c, t)
  \/ \E c \in Clients, t \in TxIds : ReadChargeback(c, t)
  \/ ReadMalformed
  \/ EndOfInput

Spec == Init /\ [][Next]_vars

\* the same program on inputs whose amounts all satisfy the spec's input
\* constraint (amount >= 0)
NextNonNeg ==
  \/ MainNoArg
  \/ MainOpenFail
  \/ MainOpen
  \/ \E c \in Clients, t \in TxIds, a \in NonNegOptAmounts : ReadDeposit(c, t, a)
  \/ \E c \in Clients, t \in TxIds, a \in NonNegOptAmounts : ReadWithdrawal(c, t, a)
  \/ \E c \in Clients, t \in TxIds : ReadDispute(c, t)
  \/ \E c \in Clients, t \in TxIds : ReadResolve(c, t)
  \/ \E c \in Clients, t \in TxIds : ReadChargeback(c, t)
  \/ ReadMalformed
  \/ EndOfInput

SpecNonNeg == Init /\ [][NextNonNeg]_vars

TypeOK ==
  /\ pc \in {"start", "reading", "done"}
  /\ DOMAIN accounts \subseteq Clients
  /\ \A c \in DOMAIN accounts : accounts[c].client = c
  /\ nread \in 0..MaxEvents
  /\ exitCode \in {-1, 0}

(***************************************************************************)
(* Vocabulary of the properties                                            *)
(***************************************************************************)

\* the step consumed one record from the reader (record' is that record)
Consumed == pc = "reading" /\ nread' = nread + 1

\* the account a record addressed to c is applied to: the stored one, or the
\* fresh one the loop inserts first
Before(c) == IF c \in DOMAIN accounts THEN accounts[c] ELSE NewAccount(c)

DisputeFamily == {"dispute", "resolve", "chargeback"}

(***************************************************************************)
(* C1  Locked is terminal: once an account is locked, no later step        *)
(* changes its available, held, locked or history.                         *)
(***************************************************************************)
LockedIsTerminal ==
  [][\A c \in DOMAIN accounts :
       accounts[c].locked =>
         /\ c \in DOMAIN accounts'
         /\ accounts'[c] = accounts[c]]_vars

\* a deposit carrying an amount was consumed for an account that is locked
LockedIsTerminal_Witness ==
  /\ record.type = "deposit"
  /\ record.amount # << >>
  /\ record.client \in DOMAIN accounts
  /\ accounts[record.client].locked

(***************************************************************************)
(* C2  (as claimed) a withdrawal whose amount exceeds available is a       *)
(* no-op, and after every withdrawal available >= 0.                       *)
(***************************************************************************)
WithdrawalKeepsAvailableNonNegative ==
  [][(Consumed /\ record'.type = "withdrawal" /\ record'.amount # << >>) =>
       LET c == record'.client
           amount == record'.amount[1]
       IN /\ (amount > Before(c).available => accounts'[c] = Before(c))
          /\ accounts'[c].available >= 0]_vars

(***************************************************************************)
(* C3  Stricter dispute policy: a dispute of a recorded transaction whose  *)
(* amount exceeds the current available balance changes nothing.           *)
(***************************************************************************)
StricterDisputePolicy ==
  [][(Consumed /\ record'.type = "dispute") =>
       LET c == record'.client
           t == record'.tx
       IN (/\ t \in DOMAIN Before(c).history
           /\ Before(c).history[t].amount > Before(c).available)
          => accounts'[c] = Before(c)]_vars

\* a dispute was consumed for an unlocked account and an undisputed record
\* whose amount exceeds available (Scenario C)
StricterDisputePolicy_Witness ==
  /\ record.type = "dispute"
  /\ record.client \in DOMAIN accounts
  /\ LET acc == accounts[record.client]
     IN /\ ~acc.locked
        /\ record.tx \in DOMAIN acc.history
        /\ ~acc.history[record.tx].disputed
        /\ acc.history[record.tx].amount > acc.available
        /\ acc.available = 0
        /\ acc.held = 0

(***************************************************************************)
(* C4  (as claimed) an existing record's disputed flag goes false -> true  *)
(* only by a dispute and true -> false only by a resolve or chargeback of  *)
(* that account; no other record, a deposit reusing the id included,       *)
(* changes its amount or flag; records are never dropped.                  *)
(***************************************************************************)
RecordChangesOnlyByDisputeFamily ==
  [][\A c \in DOMAIN accounts : \A t \in DOMAIN accounts[c].history :
       /\ c \in DOMAIN accounts'
       /\ t \in DOMAIN accounts'[c].history
       /\ LET old == accounts[c].history[t]
              new == accounts'[c].history[t]
          IN old # new =>
               /\ record'.client = c
               /\ record'.tx = t
               /\ new.amount = old.amount
               /\ (new.disputed => record'.type = "dispute")
               /\ (~new.disputed => record'.type \in {"resolve", "chargeback"})]_vars

(***************************************************************************)
(* C5  Chargeback rule: on an unlocked account a chargeback of a recorded, *)
(* disputed tx lowers held by the recorded amount, keeps available, clears *)
(* the flag and locks; otherwise it changes nothing and does not lock.     *)
(***************************************************************************)
ChargebackRule ==
  [][(Consumed /\ record'.type = "chargeback") =>
       LET c == record'.client
           t == record'.tx
           before == Before(c)
           after == accounts'[c]
       IN ~before.locked =>
            IF t \in DOMAIN before.history /\ before.history[t].disputed
            THEN /\ after.held = before.held - before.history[t].amount
                 /\ after.available = before.available
                 /\ after.locked
                 /\ DOMAIN after.history = DOMAIN before.history
                 /\ after.history[t] = [amount |-> before.history[t].amount,
                                        disputed |-> FALSE]
                 /\ \A u \in DOMAIN before.history \ {t} :
                      after.history[u] = before.history[u]
            ELSE after = before /\ ~after.locked]_vars

\* the third record consumed is a chargeback and it locked the account: it
\* can only follow a deposit and a dispute of the same tx
ChargebackRule_Witness ==
  /\ nread = 3
  /\ record.type = "chargeback"
  /\ record.client \in DOMAIN accounts
  /\ LET acc == accounts[record.client]
     IN /\ acc.locked
        /\ record.tx \in DOMAIN acc.history
        /\ ~acc.history[record.tx].disputed
        /\ acc.held = 0

(***************************************************************************)
(* C6  (as claimed) from any account with held = 0 and a recorded deposit  *)
(* at t, dispute(t) followed at once by resolve(t) restores available and  *)
(* held = 0.                                                               *)
(***************************************************************************)
DisputeResolveRoundTrip ==
  \A c \in DOMAIN accounts : \A t \in DOMAIN accounts[c].history :
    accounts[c].held = 0 =>
      LET afterDispute == Apply(accounts, Transaction("dispute", c, t, << >>))
          afterResolve == Apply(afterDispute, Transaction("resolve", c, t, << >>))
      IN /\ afterResolve[c].available = accounts[c].available
         /\ afterResolve[c].held = 0

(***************************************************************************)
(* C7  Duplicate resolves: a resolve of a tx that is unknown or not        *)
(* currently disputed changes nothing, and consuming the same resolve a    *)
(* second time changes nothing more.                                       *)
(***************************************************************************)
ResolveIdempotent ==
  [][(Consumed /\ record'.type = "resolve") =>
       LET c == record'.client
           t == record'.tx
           before == Before(c)
       IN /\ (t \notin DOMAIN before.history \/ ~before.history[t].disputed)
             => accounts'[c] = before
          /\ Apply(accounts', record') = accounts']_vars

\* a resolve was consumed for an unlocked account that holds disputed funds
\* and whose named record is not under dispute
ResolveIdempotent_Witness ==
  /\ record.type = "resolve"
  /\ record.client \in DOMAIN accounts
  /\ LET acc == accounts[record.client]
     IN /\ ~acc.locked
        /\ acc.held > 0
        /\ record.tx \in DOMAIN acc.history
        /\ ~acc.history[record.tx].disputed
        /\ \E u \in DOMAIN acc.history : acc.history[u].disputed

(***************************************************************************)
(* C8  Cross-account isolation: a dispute, resolve or chargeback naming a  *)
(* tx absent from the addressed account's own history changes no account  *)
(* (the addressed one is at most created, with zero balances).             *)
(***************************************************************************)
CrossAccountIsolation ==
  [][(/\ Consumed
      /\ record'.type \in DisputeFamily
      /\ record'.tx \notin DOMAIN Before(record'.client).history) =>
       /\ DOMAIN accounts' = DOMAIN accounts \cup {record'.client}
       /\ accounts'[record'.client] = Before(record'.client)
       /\ \A b \in DOMAIN accounts : accounts'[b] = accounts[b]]_vars

\* a dispute was consumed for client A naming a tx that only another client
\* B recorded, and that B could have had disputed
CrossAccountIsolation_Witness ==
  /\ record.type = "dispute"
  /\ record.client \in DOMAIN accounts
  /\ record.tx \notin DOMAIN accounts[record.client].history
  /\ \E b \in DOMAIN accounts \ {record.client} :
       /\ record.tx \in DOMAIN accounts[b].history
       /\ ~accounts[b].locked
       /\ ~accounts[b].history[record.tx].disputed
       /\ accounts[b].available >= accounts[b].history[record.tx].amount
       /\ accounts[b].available > 0

(***************************************************************************)
(* C9  Deposits only: an account that has been addressed by deposit        *)
(* records only has available = sum of the deposited amounts, held = 0,    *)
(* total = available, and is unlocked.                                     *)
(***************************************************************************)
DepositsOnlySum ==
  \A c \in DOMAIN accounts :
    c \notin nonDeposit =>
      /\ accounts[c].available = deposited[c]
      /\ accounts[c].held = 0
      /\ accounts[c].available + accounts[c].held = accounts[c].available
      /\ ~accounts[c].locked

\* a deposit just consumed added to what earlier deposits had put there
DepositsOnlySum_Witness ==
  /\ record.type = "deposit"
  /\ record.amount # << >>
  /\ record.client \notin nonDeposit
  /\ deposited[record.client] > record.amount[1]
  /\ record.amount[1] > 0

(***************************************************************************)
(* C10 (as claimed) the exit status is non-zero when no path is given,     *)
(* the file cannot be opened or a row cannot be parsed, and 0 only on a    *)
(* successful run.                                                         *)
(***************************************************************************)
ExitStatusReflectsFailure ==
  pc = "done" => (exitCode = 0 <=> stderr = << >>)

(***************************************************************************)
(* C11 No output on fatal failure: once a row has failed to parse no       *)
(* account row is on standard output, and rows appear only when the        *)
(* process has ended after consuming the whole input without a diagnostic. *)
(***************************************************************************)
NoOutputOnFatalFailure ==
  /\ stderr # << >> => stdout = << >>
  /\ stdout # << >> => (pc = "done" /\ stderr = << >>)

\* the run aborted on a malformed row after a deposit had been applied
NoOutputOnFatalFailure_Witness ==
  /\ pc = "done"
  /\ stderr = <<"error">>
  /\ nread >= 1
  /\ \E c \in DOMAIN accounts : accounts[c].available > 0
  /\ stdout = << >>

(***************************************************************************)
(* C12 (as claimed) emission writes exactly one row per known account and  *)
(* each row carries client, available, held, total, locked with            *)
(* total = available + held of that account.                               *)
(***************************************************************************)
OneRowPerAccountWithTotal ==
  (pc = "done" /\ stderr = << >>) =>
    /\ Len(stdout) = Cardinality(DOMAIN accounts)
    /\ \A c \in DOMAIN accounts :
         \E i \in 1..Len(stdout) :
           /\ DOMAIN stdout[i] = {"client", "available", "held", "total", "locked"}
           /\ stdout[i].client = c
           /\ stdout[i].available = accounts[c].available
           /\ stdout[i].held = accounts[c].held
           /\ stdout[i].total = accounts[c].available + accounts[c].held
           /\ stdout[i].locked = accounts[c].locked

(***************************************************************************)
(* C13 Lazy account creation: a record of any kind naming an unknown       *)
(* client creates its account with zero balances, unlocked and with empty  *)
(* history, and then applies its rule to it; no step removes an account.   *)
(***************************************************************************)
LazyAccountCreation ==
  [][/\ DOMAIN accounts \subseteq DOMAIN accounts'
     /\ Consumed =>
          LET c == record'.client
              a == record'.amount
          IN /\ DOMAIN accounts' = DOMAIN accounts \cup {c}
             /\ c \notin DOMAIN accounts =>
                  /\ accounts'[c].client = c
                  /\ accounts'[c].held = 0
                  /\ ~accounts'[c].locked
                  /\ IF record'.type = "deposit" /\ a # << >>
                     THEN /\ accounts'[c].available = a[1]
                          /\ DOMAIN accounts'[c].history = {record'.tx}
                     ELSE /\ DOMAIN accounts'[c].history = {}
                          /\ accounts'[c].available =
                               IF record'.type = "withdrawal" /\ a # << >> /\ a[1] <= 0
                               THEN 0 - a[1] ELSE 0]_vars

\* the first record of the input is a dispute: its client now has an account
\* with zero balances and no history
LazyAccountCreation_Witness ==
  /\ nread = 1
  /\ record.type = "dispute"
  /\ DOMAIN accounts = {record.client}
  /\ accounts[record.client] = NewAccount(record.client)

(***************************************************************************)
(* C14 Absent amount: a deposit or withdrawal record without an amount     *)
(* leaves the addressed account unchanged and the run goes on reading.     *)
(***************************************************************************)
AbsentAmountIsNoOp ==
  [][(Consumed /\ record'.type \in {"deposit", "withdrawal"} /\ record'.amount = << >>) =>
       /\ accounts'[record'.client] = Before(record'.client)
       /\ pc' = "reading"
       /\ stderr' = stderr
       /\ exitCode' = exitCode]_vars

\* a deposit without amount was consumed for an unlocked account that holds
\* funds, and the loop is still reading
AbsentAmountIsNoOp_Witness ==
  /\ pc = "reading"
  /\ record.type = "deposit"
  /\ record.amount = << >>
  /\ record.client \in DOMAIN accounts
  /\ ~accounts[record.client].locked
  /\ accounts[record.client].available > 0
  /\ record.tx \notin DOMAIN accounts[record.client].history

(***************************************************************************)
(* C15 Frame of apply: consuming a record changes at most the account of   *)
(* the record's client; every other account is left as it was, and no      *)
(* other step changes any account.                                         *)
(***************************************************************************)
ApplyFrame ==
  [][/\ Consumed =>
          \A b \in DOMAIN accounts \ {record'.client} :
            b \in DOMAIN accounts' /\ accounts'[b] = accounts[b]
     /\ ~Consumed => accounts' = accounts]_vars

\* an effective chargeback was consumed for one client while another client
\* holds an unlocked account with funds
ApplyFrame_Witness ==
  /\ record.type = "chargeback"
  /\ record.client \in DOMAIN accounts
  /\ accounts[record.client].locked
  /\ \E b \in DOMAIN accounts \ {record.client} :
       ~accounts[b].locked /\ accounts[b].available > 0

\* the records the reader can deliver for client c
RecordsOf(c) ==
  {Transaction(ty, c, t, a) : ty \in {"deposit", "withdrawal"}, t \in TxIds, a \in OptAmounts}
  \cup {Transaction(ty, c, t, << >>) : ty \in DisputeFamily, t \in TxIds}

(***************************************************************************)
(* C16 Cross-account order independence: from any engine state in which    *)
(* two more records can be consumed, two records addressed to different    *)
(* clients give the same accounts in either order.                         *)
(***************************************************************************)
CrossAccountOrderIndependence ==
  (pc = "reading" /\ nread + 2 <= MaxEvents) =>
    \A c1 \in Clients : \A c2 \in {c \in Clients : c > c1} :
      \A r1 \in RecordsOf(c1) : \A r2 \in RecordsOf(c2) :
        Apply(Apply(accounts, r1), r2) = Apply(Apply(accounts, r2), r1)

\* a chargeback that locked one client's account and a deposit to another
\* client were consumed, the deposit last
CrossAccountOrderIndependence_Witness ==
  /\ nread >= 4
  /\ record.type = "deposit"
  /\ record.amount # << >>
  /\ record.client \in DOMAIN accounts
  /\ accounts[record.client].available > 0
  /\ \E b \in DOMAIN accounts \ {record.client} : accounts[b].locked

(***************************************************************************)
(* C17 History retention: the set of transaction ids in an account's       *)
(* history never loses an id, and gains one only when a deposit carrying   *)
(* an amount is applied to that unlocked account, namely the deposit's id; *)
(* a withdrawal's id is never recorded.                                    *)
(***************************************************************************)
HistoryRetention ==
  [][\A c \in DOMAIN accounts' :
       LET old == DOMAIN Before(c).history
           new == DOMAIN accounts'[c].history
       IN /\ old \subseteq new
          /\ new # old =>
               /\ Consumed
               /\ record'.type = "deposit"
               /\ record'.amount # << >>
               /\ record'.client = c
               /\ ~Before(c).locked
               /\ new = old \cup {record'.tx}]_vars

\* a withdrawal was applied to an account with a recorded deposit, and the
\* withdrawal's transaction id is not in the history
HistoryRetention_Witness ==
  /\ record.type = "withdrawal"
  /\ record.amount # << >>
  /\ record.client \in DOMAIN accounts
  /\ LET acc == accounts[record.client]
     IN /\ acc.history # << >>
        /\ record.tx \notin DOMAIN acc.history
        /\ \E t \in DOMAIN acc.history :
             acc.history[t].amount = acc.available + record.amount[1]

\* the sum of the recorded amounts of the records of h that are under dispute
RECURSIVE DisputedSumOver(_, _)
DisputedSumOver(h, keys) ==
  IF keys = {} THEN 0
  ELSE LET t == CHOOSE x \in keys : TRUE
       IN (IF h[t].disputed THEN h[t].amount ELSE 0) + DisputedSumOver(h, keys \ {t})

DisputedSum(h) == DisputedSumOver(h, DOMAIN h)

(***************************************************************************)
(* C18 (as claimed) held equals the sum of the recorded amounts of the     *)
(* history records whose disputed flag is currently true.                  *)
(***************************************************************************)
HeldBackedByDisputes ==
  \A c \in DOMAIN accounts : accounts[c].held = DisputedSum(accounts[c].history)

(***************************************************************************)
(* C19 Conservation of funds: available + held equals the applied deposits *)
(* less the applied withdrawals less the amounts removed by applied        *)
(* chargebacks; a dispute or resolve does not enter the balance.           *)
(***************************************************************************)
ConservationOfFunds ==
  \A c \in DOMAIN accounts : accounts[c].available + accounts[c].held = net[c]

\* a chargeback was applied to an account that holds another deposit: the
\* charged-back amount has left the balance, the other deposit is available
ConservationOfFunds_Witness ==
  /\ record.type = "chargeback"
  /\ record.client \in DOMAIN accounts
  /\ LET acc == accounts[record.client]
     IN /\ acc.locked
        /\ acc.held = 0
        /\ acc.available > 0
        /\ acc.history[record.tx].amount > 0
        /\ net[record.client] = deposited[record.client] - acc.history[record.tx].amount

(***************************************************************************)
(* C20 Non-negative balances: when every deposit and withdrawal amount is  *)
(* non-negative, every account has available >= 0 and held >= 0.           *)
(***************************************************************************)
NonNegativeBalances ==
  \A c \in DOMAIN accounts : accounts[c].available >= 0 /\ accounts[c].held >= 0

\* a withdrawal larger than the available funds was consumed for an unlocked
\* account that has funds held under dispute
NonNegativeBalances_Witness ==
  /\ record.type = "withdrawal"
  /\ record.amount # << >>
  /\ record.client \in DOMAIN accounts
  /\ LET acc == accounts[record.client]
     IN /\ ~acc.locked
        /\ acc.held > 0
        /\ record.amount[1] > acc.available

====
